---- MODULE Spec2Model ----
(***************************************************************************)
(* A model of internal/scan/scan.go: the Scanner of cvscan.                *)
(*                                                                         *)
(*   New / getAllResources  builds the catalog s.resourceClients from the  *)
(*                          server's preferred-resources listing;          *)
(*   ListAll                lists every catalog entry, filters the items   *)
(*                          and writes one file per retained item, then    *)
(*                          probes the capabilities and writes caps.json.  *)
(*                                                                         *)
(* Strings that the code takes apart are sequences of their parts:         *)
(*   a resource name is the sequence of its "/"-separated segments         *)
(*       "pods" = <<"pods">>,  "pods/log" = <<"pods", "log">>;             *)
(*   a group/version string is the sequence of its "/"-separated parts,    *)
(*   each part the sequence of its "."-separated labels                    *)
(*       "v1" = << <<"v1">> >>,  "apps/v1" = << <<"apps">>, <<"v1">> >>;   *)
(*   a namespace or an object name is the sequence of its "-"-separated    *)
(*   pieces, "a-b" = <<"a", "b">>, the empty string <<"">>.                *)
(***************************************************************************)
EXTENDS Naturals, Sequences, FiniteSets, TLC

VARIABLES
    pc,               \* where the program is (see the actions)
    \* ---- Scanner fields
    clusterWideOnly,  \* s.clusterWideOnly
    resourceClients,  \* s.resourceClients: resource name -> client
    \* ---- getAllResources
    server,           \* what the API server offers: the listing, group by group
    derr,             \* err of Discovery().ServerPreferredResources()
    vs,               \* the slice ServerPreferredResources returned
    vi,               \* index of v in vs (outer loop)
    ri,               \* index of resource in v.APIResources (inner loop)
    c,                \* the REST client built for v
    skip,             \* the skip string set
    resources,        \* the map being built
    \* ---- ListAll
    visited,          \* catalog names the range loop has been through
    name,             \* loop variable: the resource name being listed
    lerr,             \* err of the list request of `name`
    items,            \* len(l.Items) of that request
    idx,              \* index of item in l.Items
    item,             \* loop variable: the item being filtered
    outcome,          \* what the loop body did with item
    disk,             \* outDir: file name -> content
    suppressed,       \* positions of the items the filters suppressed
    tolerated,        \* names whose list request failed with a tolerated error
    fetched,          \* number of items retrieved so far in the run
    \* ---- getCapabilities
    caps,             \* the *chartutil.Capabilities c being filled
    helm,             \* outcome of each helm subprocess that was run
    probes,           \* number of calls of getCapabilities
    err               \* the error the function returns ("nil": none)

vars == << pc, clusterWideOnly, resourceClients, server, derr, vs, vi, ri, c, skip,
           resources, visited, name, lerr, items, idx, item, outcome, disk,
           suppressed, tolerated, fetched, caps, helm, probes, err >>

newVars  == << server, derr, vs, vi, ri, c, skip, resources >>
listVars == << visited, name, lerr, items, idx, item, outcome, disk,
               suppressed, tolerated, fetched >>
capsVars == << caps, helm, probes >>

None == "none"

SeqUpTo(S, n) == UNION { [1..k -> S] : k \in 0..n }

EmptyMap == [x \in {} |-> x]

Put(m, k, v) == [x \in DOMAIN m \cup {k} |-> IF x = k THEN v ELSE m[x]]

\* No resource type at hand (outside the range loop's body).
NoName == <<>>

\* No item at hand (outside the loop body).
NoItem ==
    [kind |-> "", namespace |-> <<>>, name |-> <<>>, owners |-> <<>>,
     annotations |-> EmptyMap, labels |-> EmptyMap]

\* c := &chartutil.Capabilities{}: every field unset.
NoCaps == [KubeVersion |-> "", APIVersions |-> "", TillerVersion |-> ""]

\* No helm subprocess has been run.
NoHelm == [ls |-> "", lsTLS |-> "", version |-> "", versionTLS |-> ""]

(***************************************************************************)
(* Bounds of the model.                                                    *)
(***************************************************************************)
MaxGV == 2        \* group/versions in the server's listing

MaxRes == 1       \* resources in one group/version

MaxTypes == 3     \* entries of the catalog ListAll ranges over

MaxItems == 1     \* objects the cluster returns in one run of ListAll

MaxOwners == 1    \* owner references of one object

(***************************************************************************)
(* getAllResources                                                         *)
(***************************************************************************)

\* The strings of the permanent skip set.
PermanentSkip ==
    { <<"componentstatuses">>, <<"controllerrevisions">>, <<"events">>,
      <<"endpoints">>, <<"packagemanifests">> }

\* strings.ContainsRune(name, '/')
ContainsSlash(n) == Len(n) > 1

\* schema.ParseGroupVersion: no "/" gives the version of the core group, one
\* "/" gives group and version, more is an error.
ParseGroupVersion(s) ==
    CASE Len(s) = 1 -> [ok |-> TRUE,  Group |-> <<"">>, Version |-> s[1]]
      [] Len(s) = 2 -> [ok |-> TRUE,  Group |-> s[1],   Version |-> s[2]]
      [] OTHER      -> [ok |-> FALSE, Group |-> <<"">>, Version |-> <<"">>]

\* Inputs: the resources a group/version may list, ...
APIResources ==
    { [Name |-> <<"pods">>,        Namespaced |-> TRUE],
      [Name |-> <<"pods">>,        Namespaced |-> FALSE],
      [Name |-> <<"events">>,      Namespaced |-> TRUE],
      [Name |-> <<"pods", "log">>, Namespaced |-> TRUE] }

\* ... the group/versions the loop reads (their strings parse and their
\* client is built), ...
GoodGroupVersions ==
    { [GroupVersion |-> gv, APIResources |-> rs, failed |-> FALSE,
       clientErr |-> FALSE] :
        gv \in { << <<"v1">> >>, << <<"apps">>, <<"v1">> >> },
        rs \in SeqUpTo(APIResources, MaxRes) }

\* ... and the ones it never reads into: discovery of the group failed (it
\* is missing from vs), the string does not parse, or RESTClientFor fails.
\* What they list is one representative resource.
BadGroupVersions ==
    { [GroupVersion |-> << <<"batch">>, <<"v1">> >>,
       APIResources |-> << [Name |-> <<"pods">>, Namespaced |-> FALSE] >>,
       failed |-> TRUE, clientErr |-> FALSE],
      [GroupVersion |-> << <<"a">>, <<"b">>, <<"v1">> >>,
       APIResources |-> << [Name |-> <<"pods">>, Namespaced |-> FALSE] >>,
       failed |-> FALSE, clientErr |-> FALSE],
      [GroupVersion |-> << <<"ext">>, <<"v1">> >>,
       APIResources |-> << [Name |-> <<"pods">>, Namespaced |-> FALSE] >>,
       failed |-> FALSE, clientErr |-> TRUE] }

Servers == SeqUpTo(GoodGroupVersions \cup BadGroupVersions, MaxGV)

\* The state before New: nothing of ListAll has happened.
IdleList ==
    /\ visited = {} /\ name = NoName /\ lerr = None /\ items = 0 /\ idx = 0
    /\ item = NoItem /\ outcome = None /\ disk = EmptyMap /\ suppressed = {}
    /\ tolerated = {} /\ fetched = 0

IdleCaps ==
    /\ caps = NoCaps /\ helm = NoHelm /\ probes = 0

InitNew ==
    /\ pc = "new"
    /\ clusterWideOnly \in BOOLEAN
    /\ server \in Servers
    /\ resourceClients = EmptyMap
    /\ derr = None /\ vs = <<>> /\ vi = 0 /\ ri = 0 /\ c = None
    /\ skip = {} /\ resources = EmptyMap
    /\ IdleList /\ IdleCaps
    /\ err = "nil"

\* vs, err := s.clientset.Discovery().ServerPreferredResources(): the call
\* fails outright (no listing), or returns the listing without the groups
\* whose discovery failed, then with an ErrGroupDiscoveryFailed naming them.
ServerPreferredResources ==
    /\ pc = "new"
    /\ \/ /\ derr' = "other"
          /\ vs' = <<>>
       \/ /\ derr' = IF \E i \in 1..Len(server) : server[i].failed
                      THEN "ErrGroupDiscoveryFailed" ELSE "nil"
          /\ vs' = SelectSeq(server, LAMBDA v : ~v.failed)
    /\ pc' = "discovered"
    /\ UNCHANGED << clusterWideOnly, resourceClients, server, vi, ri, c, skip,
                    resources, listVars, capsVars, err >>

\* A variant that takes any error of the discovery call for fatal.
DiscoveryFatal_AnyError(e) == e /= "nil"

\* The error of the discovery call that makes getAllResources return it:
\* any error that is not an *ErrGroupDiscoveryFailed.
DiscoveryFatal(e) == e /= "nil" /\ e /= "ErrGroupDiscoveryFailed"

\* return nil, fmt.Errorf("fetching server API resources: ..."); New returns
\* it to its caller.
DiscoveryFails ==
    /\ pc = "discovered"
    /\ DiscoveryFatal(derr)
    /\ pc' = "failed"
    /\ err' = "fetching server API resources"
    /\ UNCHANGED << clusterWideOnly, resourceClients, newVars, listVars, capsVars >>

\* The failed groups are printed; the skip set is seeded; the loop starts.
DiscoveryTolerated ==
    /\ pc = "discovered"
    /\ ~DiscoveryFatal(derr)
    /\ skip' = PermanentSkip
    /\ vi' = 1
    /\ pc' = "gv"
    /\ UNCHANGED << clusterWideOnly, resourceClients, server, derr, vs, ri, c,
                    resources, listVars, capsVars, err >>

\* for _, v := range vs: the group/version string does not parse: continue.
BadGroupVersion ==
    /\ pc = "gv" /\ vi <= Len(vs)
    /\ ~ParseGroupVersion(vs[vi].GroupVersion).ok
    /\ vi' = vi + 1
    /\ UNCHANGED << pc, clusterWideOnly, resourceClients, server, derr, vs, ri, c, skip,
                    resources, listVars, capsVars, err >>

\* rest.RESTClientFor fails: continue.
ClientError ==
    /\ pc = "gv" /\ vi <= Len(vs)
    /\ ParseGroupVersion(vs[vi].GroupVersion).ok
    /\ vs[vi].clientErr
    /\ vi' = vi + 1
    /\ UNCHANGED << pc, clusterWideOnly, resourceClients, server, derr, vs, ri, c, skip,
                    resources, listVars, capsVars, err >>

\* The client of v is built: one per iteration, for v's group/version.
ClientReady ==
    /\ pc = "gv" /\ vi <= Len(vs)
    /\ ParseGroupVersion(vs[vi].GroupVersion).ok
    /\ ~vs[vi].clientErr
    /\ c' = [id |-> vi,
             Group |-> ParseGroupVersion(vs[vi].GroupVersion).Group,
             Version |-> ParseGroupVersion(vs[vi].GroupVersion).Version]
    /\ ri' = 1
    /\ pc' = "res"
    /\ UNCHANGED << clusterWideOnly, resourceClients, server, derr, vs, vi, skip,
                    resources, listVars, capsVars, err >>

\* The resource the inner loop is at.
Resource == vs[vi].APIResources[ri]

\* A variant that leaves sub-resources in.
SkipName_NoSlash(n, sk) == n \in sk

\* strings.ContainsRune(name, '/') || skip.Has(name)
SkipName(n, sk) == ContainsSlash(n) \/ n \in sk

\* A variant with the test of the scope inverted.
SkipNamespaced_Inverted(cwo, r) == cwo /\ ~r.Namespaced

\* s.clusterWideOnly && resource.Namespaced
SkipNamespaced(cwo, r) == cwo /\ r.Namespaced

\* A resource of v that is passed over: continue.
SkipResource ==
    /\ pc = "res" /\ ri <= Len(vs[vi].APIResources)
    /\ SkipName(Resource.Name, skip) \/ SkipNamespaced(clusterWideOnly, Resource)
    /\ ri' = ri + 1
    /\ UNCHANGED << pc, clusterWideOnly, resourceClients, server, derr, vs, vi, c, skip,
                    resources, listVars, capsVars, err >>

\* A variant that forgets the name.
SkipAdd_Forgets(sk, n) == sk

\* skip.Add(name)
SkipAdd(sk, n) == sk \cup {n}

\* skip.Add(name); resources[name] = c
ClaimResource ==
    /\ pc = "res" /\ ri <= Len(vs[vi].APIResources)
    /\ ~SkipName(Resource.Name, skip)
    /\ ~SkipNamespaced(clusterWideOnly, Resource)
    /\ skip' = SkipAdd(skip, Resource.Name)
    /\ resources' = Put(resources, Resource.Name, c)
    /\ ri' = ri + 1
    /\ UNCHANGED << pc, clusterWideOnly, resourceClients, server, derr, vs, vi, c,
                    listVars, capsVars, err >>

\* The inner loop ends: on to the next group/version.
EndOfGroup ==
    /\ pc = "res" /\ ri > Len(vs[vi].APIResources)
    /\ vi' = vi + 1
    /\ pc' = "gv"
    /\ UNCHANGED << clusterWideOnly, resourceClients, server, derr, vs, ri, c, skip,
                    resources, listVars, capsVars, err >>

\* return resources, nil; New stores it in s.resourceClients.
ReturnResources ==
    /\ pc = "gv" /\ vi > Len(vs)
    /\ resourceClients' = resources
    /\ pc' = "ready"
    /\ UNCHANGED << clusterWideOnly, newVars, listVars, capsVars, err >>

NextNew ==
    \/ ServerPreferredResources
    \/ DiscoveryFails
    \/ DiscoveryTolerated
    \/ BadGroupVersion
    \/ ClientError
    \/ ClientReady
    \/ SkipResource
    \/ ClaimResource
    \/ EndOfGroup
    \/ ReturnResources

SpecNew == InitNew /\ [][NextNew]_vars

(***************************************************************************)
(* ListAll                                                                 *)
(***************************************************************************)

\* The table ownedKindsToSkip.
ownedKindsToSkip ==
    [k \in {"Pod", "ReplicaSet", "Job"} |->
        CASE k = "Pod" -> {"ReplicationController", "ReplicaSet", "StatefulSet",
                           "DaemonSet", "Job"}
          [] k = "ReplicaSet" -> {"Deployment"}
          [] k = "Job" -> {"CronJob"}]

ServiceAccountUID == "kubernetes.io/service-account.uid"

ProvisionedForPVC == "gluster.kubernetes.io/provisioned-for-pvc"

\* m[k] of a Go map of strings: the empty string when k is not a key.
Lookup(m, k) == IF k \in DOMAIN m THEN m[k] ELSE ""

\* strings.ToLower of a kind.
ToLower(k) ==
    CASE k = "Pod" -> "pod"
      [] k = "ReplicaSet" -> "replicaset"
      [] k = "Job" -> "job"
      [] k = "Secret" -> "secret"
      [] k = "Service" -> "service"
      [] k = "ConfigMap" -> "configmap"

\* key: "scanned-" + lower(kind) + "-" + namespace + "-" + name + ".yaml",
\* as the sequence of the "-"-separated pieces of the file name, followed by
\* its extension.
Key(it) == <<"scanned", ToLower(it.kind)>> \o it.namespace \o it.name \o <<".yaml">>

CapsFile == <<"caps.json">>

\* strings.HasSuffix(group, ".clusterapi.io"), group the sequence of its
\* "."-separated labels.
HasSuffixClusterAPI(g) ==
    Len(g) >= 3 /\ g[Len(g) - 1] = "clusterapi" /\ g[Len(g)] = "io"

\* A variant without the exemption of the MCM groups.
ListFatal_NoExemption(e, g) ==
    e /= "nil" /\ e /= "NotFound" /\ e /= "MethodNotSupported"

\* A variant that tolerates bad-request and service-unavailable from every
\* group.
ListFatal_AnyGroup(e, g) ==
    e /= "nil" /\ e /= "NotFound" /\ e /= "MethodNotSupported"
        /\ ~(e = "BadRequest" \/ e = "ServiceUnavailable")

\* The condition under which ListAll returns "listing ...": err != nil &&
\* !IsNotFound && !IsMethodNotSupported && !((IsBadRequest ||
\* IsServiceUnavailable) && HasSuffix(group, ".clusterapi.io")).
ListFatal(e, g) ==
    e /= "nil" /\ e /= "NotFound" /\ e /= "MethodNotSupported"
        /\ ~((e = "BadRequest" \/ e = "ServiceUnavailable") /\ HasSuffixClusterAPI(g))

\* A variant that takes any owner reference for a reason to skip.
OwnedSkip_AnyOwner(it) ==
    /\ it.kind \in DOMAIN ownedKindsToSkip
    /\ Len(it.owners) > 0

\* The ownership test: kind is a key of the table and one of the owner
\* references has a kind of the mapped set.
OwnedSkip(it) ==
    /\ it.kind \in DOMAIN ownedKindsToSkip
    /\ \E i \in 1..Len(it.owners) : it.owners[i] \in ownedKindsToSkip[it.kind]

\* A variant that forgets the test of the kind.
TokenSecret_AnyKind(it) == Lookup(it.annotations, ServiceAccountUID) /= ""

\* kind == "Secret" && len(annotations["kubernetes.io/service-account.uid"]) > 0
TokenSecret(it) ==
    it.kind = "Secret" /\ Lookup(it.annotations, ServiceAccountUID) /= ""

\* kind == "Service" && len(labels["gluster.kubernetes.io/provisioned-for-pvc"]) > 0
GlusterService(it) ==
    it.kind = "Service" /\ Lookup(it.labels, ProvisionedForPVC) /= ""

\* What the loop body does with an item, in the order of the code.
Decision(it) ==
    CASE OwnedSkip(it) -> "owned"
      [] ~OwnedSkip(it) /\ TokenSecret(it) -> "tokenSecret"
      [] ~OwnedSkip(it) /\ ~TokenSecret(it) /\ GlusterService(it) -> "glusterService"
      [] OTHER -> "write"

\* Inputs: the errors of a list request, by the class the code tests for
\* ("Forbidden" stands for every other error), ...
ListErrors == {"NotFound", "MethodNotSupported", "BadRequest", "ServiceUnavailable",
               "Forbidden"}

\* ... the clients New may have bound the resource names to, ...
ListClients ==
    { [n |-> <<"pods">>,     cl |-> [id |-> 1, Group |-> <<"">>, Version |-> <<"v1">>]],
      [n |-> <<"secrets">>,  cl |-> [id |-> 1, Group |-> <<"">>, Version |-> <<"v1">>]],
      [n |-> <<"clusters">>, cl |-> [id |-> 2, Group |-> <<"mcm", "clusterapi", "io">>,
                                     Version |-> <<"v1alpha1">>]],
      [n |-> <<"clusters">>, cl |-> [id |-> 2, Group |-> <<"clusterapi", "io">>,
                                     Version |-> <<"v1alpha1">>]],
      [n |-> <<"jobs">>,     cl |-> [id |-> 3, Group |-> <<"batch">>, Version |-> <<"v1">>]] }

\* ... the catalogs made of them, ...
ListCatalogs ==
    { [n \in { e.n : e \in S } |-> (CHOOSE e \in S : e.n = n).cl] :
        S \in { T \in SUBSET ListClients :
                    /\ Cardinality(T) <= MaxTypes
                    /\ \A e, f \in T : e.n = f.n => e = f } }

\* ... and the objects of the cluster: pods owned by every kind of the
\* table, the other kinds owned by the two kinds of controllers of
\* controllers, secrets, services and config maps with and without the
\* annotation and the label, and pods whose file names collide.
OwnerKinds == {"ReplicationController", "ReplicaSet", "StatefulSet", "DaemonSet", "Job",
               "Deployment", "CronJob"}

StringMaps(k) == { EmptyMap, k :> "", k :> "x" }

Items ==
    { [kind |-> "Pod", namespace |-> <<"a">>, name |-> <<"c">>, owners |-> o,
       annotations |-> EmptyMap, labels |-> EmptyMap] :
         o \in SeqUpTo(OwnerKinds, MaxOwners) }
    \cup
    { [kind |-> k, namespace |-> <<"a">>, name |-> <<"c">>, owners |-> o,
       annotations |-> EmptyMap, labels |-> EmptyMap] :
         k \in {"ReplicaSet", "Job", "ConfigMap"},
         o \in SeqUpTo({"Deployment", "CronJob"}, MaxOwners) }
    \cup
    { [kind |-> k, namespace |-> <<"a">>, name |-> <<"c">>, owners |-> <<>>,
       annotations |-> a, labels |-> l] :
         k \in {"Secret", "Service", "ConfigMap"},
         a \in StringMaps(ServiceAccountUID), l \in StringMaps(ProvisionedForPVC) }
    \cup
    { [kind |-> "Pod", namespace |-> n[1], name |-> n[2], owners |-> <<>>,
       annotations |-> EmptyMap, labels |-> EmptyMap] :
         n \in { << <<"a", "b">>, <<"c">> >>, << <<"a">>, <<"b", "c">> >>,
                 << <<"">>, <<"c">> >> } }

IdleNew ==
    /\ server = <<>> /\ derr = None /\ vs = <<>> /\ vi = 0 /\ ri = 0 /\ c = None
    /\ skip = {} /\ resources = EmptyMap

\* ListAll is called on a Scanner that New returned (ListAll does not read
\* s.clusterWideOnly).
InitListAll ==
    /\ pc = "ready"
    /\ clusterWideOnly = FALSE
    /\ resourceClients \in ListCatalogs
    /\ IdleNew /\ IdleList /\ IdleCaps
    /\ err = "nil"

\* os.MkdirAll(outDir) fails.
MkdirAllFails ==
    /\ pc = "ready"
    /\ pc' = "failed"
    /\ err' = "creating output directory"
    /\ UNCHANGED << clusterWideOnly, resourceClients, newVars, listVars, capsVars >>

MkdirAll ==
    /\ pc = "ready"
    /\ pc' = "range"
    /\ UNCHANGED << clusterWideOnly, resourceClients, newVars, listVars, capsVars, err >>

\* for name, client := range s.resourceClients, in any order; the list
\* request (the namespace and the label selector go to the server as they
\* are): an error and no items, or the items.
List ==
    /\ pc = "range"
    /\ \E n \in DOMAIN resourceClients \ visited :
        /\ name' = n
        /\ visited' = visited \cup {n}
    /\ \/ /\ lerr' \in ListErrors
          /\ items' = 0
       \/ /\ lerr' = "nil"
          /\ items' \in 0..(MaxItems - fetched)
    /\ pc' = "listed"
    /\ UNCHANGED << clusterWideOnly, resourceClients, newVars, idx, item, outcome,
                    disk, suppressed, tolerated, fetched, capsVars, err >>

\* A variant that leaves the loop instead of the function.
ListFails_Break ==
    /\ pc = "listed"
    /\ ListFatal(lerr, resourceClients[name].Group)
    /\ visited' = DOMAIN resourceClients
    /\ pc' = "range"
    /\ err' = "listing"
    /\ UNCHANGED << clusterWideOnly, resourceClients, newVars, name, lerr, items, idx,
                    item, outcome, disk, suppressed, tolerated, fetched, capsVars >>

\* return fmt.Errorf("listing %s: %v", name, err)
ListFails ==
    /\ pc = "listed"
    /\ ListFatal(lerr, resourceClients[name].Group)
    /\ pc' = "failed"
    /\ err' = "listing"
    /\ UNCHANGED << clusterWideOnly, resourceClients, newVars, listVars, capsVars >>

\* if len(l.Items) == 0 { continue }
ListEmpty ==
    /\ pc = "listed"
    /\ ~ListFatal(lerr, resourceClients[name].Group)
    /\ items = 0
    /\ tolerated' = IF lerr = "nil" THEN tolerated ELSE tolerated \cup {name}
    /\ name' = NoName /\ lerr' = None
    /\ pc' = "range"
    /\ UNCHANGED << clusterWideOnly, resourceClients, newVars, visited, items, idx,
                    item, outcome, disk, suppressed, fetched, capsVars, err >>

ListItems ==
    /\ pc = "listed"
    /\ ~ListFatal(lerr, resourceClients[name].Group)
    /\ items > 0
    /\ idx' = 1
    /\ pc' = "item"
    /\ UNCHANGED << clusterWideOnly, resourceClients, newVars, visited, name, lerr,
                    items, item, outcome, disk, suppressed, tolerated, fetched, capsVars, err >>

\* for _, item := range l.Items: the next item of the list. Its key is
\* computed and its YAML made (yaml.Marshal of an object decoded from the
\* server's JSON does not fail).
FetchItem ==
    /\ pc = "item"
    /\ item' \in Items
    /\ fetched' = fetched + 1
    /\ pc' = "filter"
    /\ UNCHANGED << clusterWideOnly, resourceClients, newVars, visited, name, lerr,
                    items, idx, outcome, disk, suppressed, tolerated, capsVars, err >>

\* The content of the file of the item at hand: the YAML of item idx of the
\* list of name.
Payload == [of |-> name, index |-> idx]

\* continue outer / continue: one of the three filters suppresses the item.
Suppress ==
    /\ pc = "filter"
    /\ Decision(item) /= "write"
    /\ outcome' = Decision(item)
    /\ suppressed' = suppressed \cup {Payload}
    /\ pc' = "next"
    /\ UNCHANGED << clusterWideOnly, resourceClients, newVars, visited, name, lerr,
                    items, idx, item, disk, tolerated, fetched, capsVars, err >>

\* ioutil.WriteFile(filepath.Join(outDir, key), y, os.ModePerm)
WriteFile ==
    /\ pc = "filter"
    /\ Decision(item) = "write"
    /\ outcome' = "written"
    /\ disk' = Put(disk, Key(item), Payload)
    /\ pc' = "next"
    /\ UNCHANGED << clusterWideOnly, resourceClients, newVars, visited, name, lerr,
                    items, idx, item, suppressed, tolerated, fetched, capsVars, err >>

\* ioutil.WriteFile fails (no file is made): return err.
WriteFileFails ==
    /\ pc = "filter"
    /\ Decision(item) = "write"
    /\ outcome' = "write failed"
    /\ pc' = "failed"
    /\ err' = "write"
    /\ UNCHANGED << clusterWideOnly, resourceClients, newVars, visited, name, lerr,
                    items, idx, item, disk, suppressed, tolerated, fetched, capsVars >>

\* The end of the loop body: the next item, or the next resource type.
NextItem ==
    /\ pc = "next"
    /\ item' = NoItem
    /\ outcome' = None
    /\ IF idx < items
         THEN /\ idx' = idx + 1 /\ pc' = "item"
              /\ UNCHANGED << name, lerr, items >>
         ELSE /\ idx' = 0 /\ pc' = "range"
              /\ name' = NoName /\ lerr' = None /\ items' = 0
    /\ UNCHANGED << clusterWideOnly, resourceClients, newVars, visited, disk,
                    suppressed, tolerated, fetched, capsVars, err >>

\* The range loop is over: c, err := s.getCapabilities().
\* sv, err := s.clientset.ServerVersion() fails: return c, "server version".
ServerVersionFails ==
    /\ pc = "range" /\ visited = DOMAIN resourceClients
    /\ probes' = probes + 1
    /\ caps' = NoCaps
    /\ pc' = "failed"
    /\ err' = "reading cluster capabilities: server version"
    /\ UNCHANGED << clusterWideOnly, resourceClients, newVars, listVars, helm >>

\* c.KubeVersion = sv
ServerVersion ==
    /\ pc = "range" /\ visited = DOMAIN resourceClients
    /\ probes' = probes + 1
    /\ caps' = [NoCaps EXCEPT !.KubeVersion = "sv"]
    /\ pc' = "groups"
    /\ UNCHANGED << clusterWideOnly, resourceClients, newVars, listVars, helm, err >>

\* groups, err := s.clientset.ServerGroups() fails: return c, "server groups".
ServerGroupsFails ==
    /\ pc = "groups"
    /\ pc' = "failed"
    /\ err' = "reading cluster capabilities: server groups"
    /\ UNCHANGED << clusterWideOnly, resourceClients, newVars, listVars, capsVars >>

\* if groups.Size() == 0 { return c, nil }
ServerGroupsEmpty ==
    /\ pc = "groups"
    /\ pc' = "probed"
    /\ UNCHANGED << clusterWideOnly, resourceClients, newVars, listVars, capsVars, err >>

\* c.APIVersions = vs
ServerGroups ==
    /\ pc = "groups"
    /\ caps' = [caps EXCEPT !.APIVersions = "versions"]
    /\ pc' = "helm ls"
    /\ UNCHANGED << clusterWideOnly, resourceClients, newVars, listVars, helm, probes, err >>

\* exec.Command("helm", "ls").Run()
HelmLs ==
    /\ pc = "helm ls"
    /\ \/ helm' = [helm EXCEPT !.ls = "ok"] /\ pc' = "helm version"
       \/ helm' = [helm EXCEPT !.ls = "failed"] /\ pc' = "helm ls --tls"
    /\ UNCHANGED << clusterWideOnly, resourceClients, newVars, listVars, caps, probes, err >>

\* A variant that reports the missing tool.
LsFailedError_Reported == "tiller"

\* The error getCapabilities returns when both "helm ls" fail: return c, nil.
LsFailedError == "nil"

\* exec.Command("helm", "ls", "--tls").Run() succeeds.
HelmLsTLS ==
    /\ pc = "helm ls --tls"
    /\ helm' = [helm EXCEPT !.lsTLS = "ok"]
    /\ pc' = "helm version"
    /\ UNCHANGED << clusterWideOnly, resourceClients, newVars, listVars, caps, probes, err >>

\* and fails: return c, nil.
HelmLsTLSFails ==
    /\ pc = "helm ls --tls"
    /\ helm' = [helm EXCEPT !.lsTLS = "failed"]
    /\ IF LsFailedError = "nil"
         THEN pc' = "probed" /\ err' = err
         ELSE pc' = "failed" /\ err' = "reading cluster capabilities: tiller"
    /\ UNCHANGED << clusterWideOnly, resourceClients, newVars, listVars, caps, probes >>

\* exec.Command("helm", "version", "-s", "--template", ...).Run()
HelmVersion ==
    /\ pc = "helm version"
    /\ \/ /\ helm' = [helm EXCEPT !.version = "ok"]
          /\ caps' = [caps EXCEPT !.TillerVersion = "semver"]
          /\ pc' = "probed"
       \/ /\ helm' = [helm EXCEPT !.version = "failed"]
          /\ caps' = caps
          /\ pc' = "helm version --tls"
    /\ UNCHANGED << clusterWideOnly, resourceClients, newVars, listVars, probes, err >>

\* exec.Command("helm", "version", "--tls", ...).Run() succeeds:
\* c.TillerVersion = &version.Version{SemVer: out.String()}
HelmVersionTLS ==
    /\ pc = "helm version --tls"
    /\ helm' = [helm EXCEPT !.versionTLS = "ok"]
    /\ caps' = [caps EXCEPT !.TillerVersion = "semver"]
    /\ pc' = "probed"
    /\ UNCHANGED << clusterWideOnly, resourceClients, newVars, listVars, probes, err >>

\* and fails: return c, fmt.Errorf("tiller version: %v", err), which ListAll
\* returns as "reading cluster capabilities: ...".
HelmVersionTLSFails ==
    /\ pc = "helm version --tls"
    /\ helm' = [helm EXCEPT !.versionTLS = "failed"]
    /\ pc' = "failed"
    /\ err' = "reading cluster capabilities: tiller version"
    /\ UNCHANGED << clusterWideOnly, resourceClients, newVars, listVars, caps, probes >>

\* getCapabilities returned c, nil: caps.json is written (c, with the
\* namespace and the release name of the label selector); return nil.
WriteCaps ==
    /\ pc = "probed"
    /\ disk' = Put(disk, CapsFile, caps)
    /\ pc' = "done"
    /\ UNCHANGED << clusterWideOnly, resourceClients, newVars, visited, name, lerr,
                    items, idx, item, outcome, suppressed, tolerated, fetched, capsVars, err >>

\* ioutil.WriteFile of caps.json fails: return err.
WriteCapsFails ==
    /\ pc = "probed"
    /\ pc' = "failed"
    /\ err' = "write"
    /\ UNCHANGED << clusterWideOnly, resourceClients, newVars, listVars, capsVars >>

NextListAll ==
    \/ MkdirAllFails
    \/ MkdirAll
    \/ List
    \/ ListFails
    \/ ListEmpty
    \/ ListItems
    \/ FetchItem
    \/ Suppress
    \/ WriteFile
    \/ WriteFileFails
    \/ NextItem
    \/ ServerVersionFails
    \/ ServerVersion
    \/ ServerGroupsFails
    \/ ServerGroupsEmpty
    \/ ServerGroups
    \/ HelmLs
    \/ HelmLsTLS
    \/ HelmLsTLSFails
    \/ HelmVersion
    \/ HelmVersionTLS
    \/ HelmVersionTLSFails
    \/ WriteCaps
    \/ WriteCapsFails

SpecListAll == InitListAll /\ [][NextListAll]_vars

(***************************************************************************)
(* The catalog: what the claims about getAllResources speak of.            *)
(***************************************************************************)

\* The loop reads into group/version i of vs: its string parses and its
\* client is built.
Read(i) == ParseGroupVersion(vs[i].GroupVersion).ok /\ ~vs[i].clientErr

\* Group/version i of vs lists a resource named n.
Lists(i, n) == \E j \in 1..Len(vs[i].APIResources) : vs[i].APIResources[j].Name = n

\* Group/version i of vs lists a resource named n that the scope filter lets
\* through in the mode of the run.
ListsInScope(i, n) ==
    \E j \in 1..Len(vs[i].APIResources) :
        /\ vs[i].APIResources[j].Name = n
        /\ ~(clusterWideOnly /\ vs[i].APIResources[j].Namespaced)

\* The catalog under construction and, once New has returned, the field.
Catalogs == IF pc = "ready" THEN {resources, resourceClients} ELSE {resources}

\* C5, as stated: every name of the catalog is bound to the client of the
\* first group/version of the listing (among those the loop reads) that
\* lists the name.
C5_FirstListedWins ==
    \A m \in Catalogs : \A n \in DOMAIN m :
        /\ Read(m[n].id) /\ Lists(m[n].id, n)
        /\ \A i \in 1..Len(vs) : (Read(i) /\ Lists(i, n)) => m[n].id <= i

\* C5, amended: every name of the catalog is bound to exactly one client,
\* that of the first group/version of the listing (among those the loop
\* reads) that lists the name with a resource the cluster-wide-only filter
\* lets through; no later group/version that lists the name has its client
\* in the entry, at any point of the construction and in the result.
C5_FirstAcceptedWins ==
    \A m \in Catalogs : \A n \in DOMAIN m :
        /\ Read(m[n].id) /\ ListsInScope(m[n].id, n)
        /\ m[n].Group = ParseGroupVersion(vs[m[n].id].GroupVersion).Group
        /\ m[n].Version = ParseGroupVersion(vs[m[n].id].GroupVersion).Version
        /\ \A i \in 1..Len(vs) : (Read(i) /\ ListsInScope(i, n)) => m[n].id <= i

\* The catalog is returned with a name that two group/versions list in
\* scope, bound to the first of them.
C5_Witness ==
    /\ pc = "ready"
    /\ \E n \in DOMAIN resourceClients : \E i, k \in 1..Len(vs) :
        /\ i < k /\ Read(i) /\ Read(k)
        /\ ListsInScope(i, n) /\ ListsInScope(k, n)
        /\ resourceClients[n].id = i

\* C6: with clusterWideOnly set, no entry of the catalog comes from a
\* namespaced resource: the group/version an entry is bound to lists the
\* name as a cluster-scoped resource.
C6_NoNamespacedEntry ==
    clusterWideOnly =>
        \A m \in Catalogs : \A n \in DOMAIN m :
            \E j \in 1..Len(vs[m[n].id].APIResources) :
                /\ vs[m[n].id].APIResources[j].Name = n
                /\ ~vs[m[n].id].APIResources[j].Namespaced
                /\ \A k \in 1..(j - 1) :
                      vs[m[n].id].APIResources[k].Name = n =>
                          vs[m[n].id].APIResources[k].Namespaced

\* A cluster-wide-only catalog is returned for a listing in which a name is
\* namespaced in one group/version and cluster-scoped in another.
C6_Witness ==
    /\ pc = "ready" /\ clusterWideOnly
    /\ \E n \in DOMAIN resourceClients : \E i \in 1..Len(vs) :
        /\ i /= resourceClients[n].id /\ Read(i)
        /\ \E j \in 1..Len(vs[i].APIResources) :
              vs[i].APIResources[j].Name = n /\ vs[i].APIResources[j].Namespaced

\* A group of the server's listing fails: its discovery failed, its
\* group/version string does not parse, or its client cannot be built (each
\* is logged by the code).
Failing(g) == g.failed \/ ~ParseGroupVersion(g.GroupVersion).ok \/ g.clientErr

\* A resource passes the filters of the catalog.
PassesFilters(r) ==
    /\ ~ContainsSlash(r.Name)
    /\ r.Name \notin PermanentSkip
    /\ ~(clusterWideOnly /\ r.Namespaced)

C10_ClaimedIffAdded ==
    /\ (pc \in {"gv", "res", "ready"}) => skip = PermanentSkip \cup DOMAIN resources
    /\ \A m \in Catalogs : \A n \in DOMAIN m :
          ~ContainsSlash(n) /\ n \notin PermanentSkip

\* A cluster-wide-only catalog binds a name to a group/version that comes
\* after one that lists the name as namespaced: without the flag the name
\* would be bound to the earlier one, so this entry is not in the
\* cluster-scoped part of that catalog.
C10_Witness ==
    /\ pc = "ready" /\ clusterWideOnly
    /\ \E n \in DOMAIN resourceClients : \E i \in 1..Len(vs) :
        /\ i < resourceClients[n].id /\ Read(i)
        /\ \E j \in 1..Len(vs[i].APIResources) :
              vs[i].APIResources[j].Name = n /\ vs[i].APIResources[j].Namespaced

(***************************************************************************)
(* The enumeration: what the claims about ListAll speak of.                *)
(***************************************************************************)

\* The ownership skip table as the specification gives it.
SuppressionSet(k) ==
    CASE k = "Pod" -> {"ReplicationController", "ReplicaSet", "StatefulSet", "DaemonSet",
                       "Job"}
      [] k = "ReplicaSet" -> {"Deployment"}
      [] k = "Job" -> {"CronJob"}
      [] OTHER -> {}

\* The loop body has acted on item: it was suppressed, written, or its
\* write failed (which ends the run).
Filtered == pc = "next" \/ (pc = "failed" /\ outcome = "write failed")

\* The item at hand has been handed to ioutil.WriteFile under its key; the
\* file holds its YAML when the call succeeded.
HandedToWriter ==
    /\ outcome \in {"written", "write failed"}
    /\ outcome = "written" => (Key(item) \in DOMAIN disk /\ disk[Key(item)] = Payload)

\* No file holds the YAML of the item at hand.
NotOnDisk == Payload \in suppressed /\ \A k \in DOMAIN disk : disk[k] /= Payload

\* The files of items (all but caps.json).
ItemFiles == DOMAIN disk \ {CapsFile}

\* C1: an item whose kind is a key of the ownership skip table is
\* suppressed when one of its owner references names a kind of the mapped
\* set, and no file ever holds it; with no owner reference, or with owners
\* outside the set only, it is handed to the writer under its key (no item
\* of these kinds is a Secret or a Service). No file on disk ever holds a
\* suppressed item.
C1_OwnershipSuppression ==
    /\ (Filtered /\ item.kind \in {"Pod", "ReplicaSet", "Job"}) =>
          IF \E i \in 1..Len(item.owners) : item.owners[i] \in SuppressionSet(item.kind)
            THEN outcome = "owned" /\ NotOnDisk
            ELSE HandedToWriter
    /\ \A k \in DOMAIN disk : disk[k] \notin suppressed

\* A pod owned by a ReplicaSet has been suppressed and left no file.
C1_Witness ==
    /\ pc = "next" /\ outcome = "owned"
    /\ item.kind = "Pod" /\ item.owners = <<"ReplicaSet">>
    /\ ItemFiles = {}

\* The error is one the specification tolerates: not-found,
\* method-not-supported, or bad-request / service-unavailable from a group
\* whose name ends with ".clusterapi.io".
ToleratedError(e, g) ==
    \/ e \in {"NotFound", "MethodNotSupported"}
    \/ /\ e \in {"BadRequest", "ServiceUnavailable"}
       /\ Len(g) >= 3 /\ SubSeq(g, Len(g) - 1, Len(g)) = <<"clusterapi", "io">>

\* A list request has just returned a tolerated error.
ToleratedHere == pc = "listed" /\ lerr /= "nil" /\ ToleratedError(lerr, resourceClients[name].Group)

\* A list request has just returned an error that is not tolerated.
FatalHere == pc = "listed" /\ lerr /= "nil" /\ ~ToleratedError(lerr, resourceClients[name].Group)

\* Every file is still there, with the content it had.
FilesKept == \A k \in DOMAIN disk : k \in DOMAIN disk' /\ disk'[k] = disk[k]

\* C2: a tolerated list error is taken for an empty list (no item is
\* fetched, no file is touched, no error is returned) and the loop goes on
\* with the entries that remain: the capability probe is only reached when
\* every catalog entry has been listed. The step that ends the run with an
\* error leaves every file on disk as it was.
C2_ToleratedErrorsAndFilesKept ==
    /\ [](probes > 0 => visited = DOMAIN resourceClients)
    /\ [][ /\ ToleratedHere =>
                /\ pc' = "range" /\ err' = "nil"
                /\ items = 0 /\ fetched' = fetched
                /\ disk' = disk /\ visited' = visited
                /\ tolerated' = tolerated \cup {name}
           /\ (pc = "range" /\ visited /= DOMAIN resourceClients) =>
                /\ pc' = "listed"
                /\ name' \in DOMAIN resourceClients \ visited
                /\ visited' = visited \cup {name'}
           /\ pc' = "failed" => FilesKept ]_vars

\* A run in which one resource type met a tolerated error, another one had
\* its item written, and a third one ended the run with a list error: the
\* file is on disk.
C2_Witness ==
    /\ pc = "failed" /\ err = "listing"
    /\ tolerated /= {}
    /\ ItemFiles /= {}

\* C3: a list error outside the tolerated set makes ListAll return the
\* error at once: no file is written, no list request is issued and no
\* probe is run in that step, and nothing happens after it.
C3_FatalListErrorAborts ==
    /\ [](err = "listing" => pc = "failed")
    /\ [][ /\ FatalHere =>
                /\ pc' = "failed" /\ err' = "listing"
                /\ disk' = disk /\ visited' = visited
                /\ fetched' = fetched /\ probes' = probes
           /\ pc /= "failed" ]_vars

\* A bad-request from a group named "clusterapi.io" (which does not end
\* with the suffix) has ended the run while a catalog entry had not been
\* listed and a file had been written.
C3_Witness ==
    /\ pc = "failed" /\ err = "listing"
    /\ lerr = "BadRequest" /\ resourceClients[name].Group = <<"clusterapi", "io">>
    /\ visited /= DOMAIN resourceClients
    /\ ItemFiles /= {}
    /\ probes = 0 /\ CapsFile \notin DOMAIN disk

\* C7: a Secret with a non-empty service-account annotation is suppressed
\* and no file holds it; a Secret without it, or with it empty, is handed
\* to the writer; a Service with a non-empty provisioned-for-pvc label is
\* suppressed; and the two filters suppress no item of another kind.
C7_SecretAndServiceExclusions ==
    Filtered =>
        /\ item.kind = "Secret" =>
              IF Lookup(item.annotations, ServiceAccountUID) /= ""
                THEN outcome = "tokenSecret" /\ NotOnDisk
                ELSE HandedToWriter
        /\ (item.kind = "Service" /\ Lookup(item.labels, ProvisionedForPVC) /= "") =>
              outcome = "glusterService" /\ NotOnDisk
        /\ outcome = "tokenSecret" => item.kind = "Secret"
        /\ outcome = "glusterService" => item.kind = "Service"
        /\ (item.kind \notin {"Secret", "Service"} /\ item.owners = <<>>) => HandedToWriter

\* A Secret with the annotation has been suppressed and left no file.
C7_Witness ==
    /\ pc = "next" /\ outcome = "tokenSecret"
    /\ item.kind = "Secret" /\ Lookup(item.annotations, ServiceAccountUID) = "x"
    /\ ItemFiles = {}

\* The errors of ListAll that come from getCapabilities.
CapabilityErrors ==
    { "reading cluster capabilities: server version",
      "reading cluster capabilities: server groups",
      "reading cluster capabilities: tiller",
      "reading cluster capabilities: tiller version" }

C8_ProbeRunsWhateverHappens ==
    (pc \in {"done", "failed"} /\ visited /= {} /\ err \in {"nil", "listing"}) =>
        probes = 1 /\ CapsFile \in DOMAIN disk

\* The enumeration is over and has returned no error.
Enumerated ==
    /\ pc \notin {"ready", "range", "listed", "item", "filter", "next"}
    /\ ~(pc = "failed" /\ err \in {"creating output directory", "listing"})
    /\ ~(pc = "failed" /\ err = "write" /\ outcome = "write failed")

\* C8, amended: the capability probe runs at most once in a run of ListAll,
\* and exactly once when the enumeration has been through every catalog
\* entry without a fatal error, whether it found items, found none or met
\* tolerated errors; the descriptor is then written when the probe returns
\* no error and the write succeeds. When the enumeration ends with an error
\* (a list error outside the tolerated set, a failed write) or the output
\* directory cannot be made, the probe is not run and no descriptor is
\* written.
C8_ProbeOnceAfterEnumeration ==
    /\ probes = (IF Enumerated THEN 1 ELSE 0)
    /\ Enumerated => visited = DOMAIN resourceClients
    /\ pc = "done" => (err = "nil" /\ disk[CapsFile] = caps)
    /\ CapsFile \in DOMAIN disk => pc = "done"
    /\ (pc = "failed" /\ Enumerated) => err \in CapabilityErrors \cup {"write"}

\* ListAll has returned nil after an enumeration with a tolerated error and
\* a written item: the probe has run once and caps.json is on disk.
C8_Witness ==
    /\ pc = "done" /\ probes = 1
    /\ tolerated /= {} /\ ItemFiles /= {}
    /\ CapsFile \in DOMAIN disk

====
